---------------------------- MODULE Spec2Model ----------------------------
(***************************************************************************)
(* A model of dvd_transcoder.py: the discovery passes that build the list  *)
(* of VOB segments of a mounted DVD image (cat_move_vobs_to_local,         *)
(* ffmpeg_move_vobs_to_local, py_move_vobs_to_local), and the per-image    *)
(* loop of main() that mounts, discovers, merges, cleans up and unmounts.  *)
(*                                                                         *)
(* File names and paths are sequences of one-character strings, so that    *)
(* str.split, int() and the lexicographic list.sort() of the source are    *)
(* computed on the characters, as Python computes them.                    *)
(***************************************************************************)
EXTENDS Integers, Sequences, FiniteSets, TLC

(***************************************************************************)
(* Bounds of the model.                                                    *)
(***************************************************************************)
\* most files on one image in the discovery specification
MaxFiles == 3
\* number of images in the batch
NumImages == 2

(***************************************************************************)
(* Characters and strings.                                                 *)
(***************************************************************************)
Digits == {"0", "1", "2", "3", "4", "5", "6", "7", "8", "9"}

\* code point of a character: Python compares str by code point
Ord(c) ==
    CASE c = "." -> 46 [] c = "/" -> 47
      [] c = "0" -> 48 [] c = "1" -> 49 [] c = "2" -> 50 [] c = "3" -> 51
      [] c = "4" -> 52 [] c = "5" -> 53 [] c = "6" -> 54 [] c = "7" -> 55
      [] c = "8" -> 56 [] c = "9" -> 57
      [] c = "A" -> 65 [] c = "B" -> 66 [] c = "F" -> 70 [] c = "I" -> 73
      [] c = "O" -> 79 [] c = "S" -> 83 [] c = "T" -> 84 [] c = "V" -> 86
      [] c = "_" -> 95

\* s < t for two str values: the order list.sort() uses on paths
RECURSIVE StrLess(_, _)
StrLess(s, t) ==
    IF t = << >> THEN FALSE
    ELSE IF s = << >> THEN TRUE
    ELSE IF Head(s) = Head(t) THEN StrLess(Tail(s), Tail(t))
    ELSE Ord(Head(s)) < Ord(Head(t))

\* str.split(sep) for a one-character separator: every field, empty ones too
RECURSIVE Split(_, _)
Split(s, sep) ==
    IF \A i \in 1..Len(s) : s[i] # sep THEN << s >>
    ELSE LET i == CHOOSE k \in 1..Len(s) :
                      s[k] = sep /\ \A j \in 1..(k - 1) : s[j] # sep
         IN  << SubSeq(s, 1, i - 1) >> \o Split(SubSeq(s, i + 1, Len(s)), sep)

Last(q) == q[Len(q)]

\* int(s) succeeds: s is a non-empty run of decimal digits (the alphabet of
\* Ord has no sign, blank or other character int() accepts)
IsInt(s) == s # << >> /\ \A i \in 1..Len(s) : s[i] \in Digits

\* the value of int(s) when it succeeds
RECURSIVE IntOf(_)
IntOf(s) ==
    IF s = << >> THEN 0
    ELSE 10 * IntOf(SubSeq(s, 1, Len(s) - 1)) + (Ord(Last(s)) - 48)

\* list.sort() on a list of str: ascending by code points
RECURSIVE Insert(_, _)
Insert(p, q) ==
    IF q = << >> THEN << p >>
    ELSE IF StrLess(Head(q), p) THEN << Head(q) >> \o Insert(p, Tail(q))
    ELSE << p >> \o q

RECURSIVE Sorted(_)
Sorted(q) == IF q = << >> THEN << >> ELSE Insert(Head(q), Sorted(Tail(q)))

(***************************************************************************)
(* The files an image can hold.  A file is <<dir_name, fname>>.           *)
(***************************************************************************)
VTS == << "V", "T", "S" >>
VOB == << "V", "O", "B" >>
Fname(disc, vob) == VTS \o << "_" >> \o disc \o << "_" >> \o vob \o << "." >> \o VOB

DirA == << "A" >>
DirB == << "B" >>

\* VTS_01_0 .. VTS_02_2 in directory A
RegularFiles ==
    { << DirA, Fname(d, v) >> :
        d \in { << "0", "1" >>, << "0", "2" >> },
        v \in { << "0" >>, << "1" >>, << "2" >> } }

OddFiles ==
    { << DirA, Fname(<< "0", "1" >>, << "1", "0" >>) >>,       \* A/VTS_01_10.VOB
      << DirB, Fname(<< "0", "1" >>, << "1" >>) >>,            \* B/VTS_01_1.VOB
      << DirA, Fname(<< "A" >>, << "1" >>) >>,                 \* A/VTS_A_1.VOB
      << DirA, VTS \o << "_", "0", "1", "." >> \o VOB >>,      \* A/VTS_01.VOB
      << DirA, VTS \o << "_", "0", "1", "_", "0", ".", "I", "F", "O" >> >> }

DiscFiles == RegularFiles \cup OddFiles

\* the path the passes build: f"{dir_name}{os.sep}{fname}"
PathOf(f) == f[1] \o << "/" >> \o f[2]

\* v.split(os.sep)[-1]
Basename(path) == Last(Split(path, "/"))

\* Of transcode_string the model keeps the size that follows "-s": 640x480 in
\* the H.264 and H.265 formats (lines 273, 277), none in the other formats
S640x480 == << "6", "4", "0", "x", "4", "8", "0" >>
NoSize == << >>


(***************************************************************************)
(* State.                                                                  *)
(***************************************************************************)
VARIABLES
    mode,             \* args.mode: 1 cat, 2 ffmpeg, 3 python bytes
    overwrite,        \* args.overwrite
    same_dir,         \* the output directory is the directory of the images
    iso_paths,        \* main: process_files, image i being <<directory, name>>
    ffprobe_command,  \* main: ffprobe_command is not empty
    transcode_string, \* main: the size that follows "-s" in transcode_string
    idx,              \* position of the for loop of main in process_files
    pc,               \* where main is in the body of the loop
    left_to_process,  \* main: left_to_process
    files,            \* the files on the root of the image being processed
    todo,             \* files os.walk has not yielded yet
    cur_dir,          \* dir_name of the directory os.walk is listing
    walk,             \* the files in the order os.walk yielded them
    input_voblist,    \* *_move_vobs_to_local: input_voblist
    input_disclist,   \* *_move_vobs_to_local: input_disclist
    last_disc_num,    \* *_move_vobs_to_local: last_disc_num
    has_vobs,         \* what the discovery pass returns
    unreadable,       \* the segments of the image that cannot be read
    move_errors,      \* py_move_vobs_to_local: errors
    errors,           \* the errors flag of the transcode/concat step
    mount_dirs,       \* k such that the directory /mnt/iso_volume_k exists
    mounts,           \* <<image, k>>: image is mounted at /mnt/iso_volume_k
    mount_point,      \* main: mount_point (the k of it)
    vob_dirs,         \* per image: the <image>.VOBS directory and what it holds
    mylists,          \* images whose <iso>.mylist.txt exists
    out_files,        \* final output files that exist
    ffmpeg_calls,     \* the steps of the encode loops for the current image
    messages,         \* what the logger was given for the current image
    unmount_issued,   \* images for which the unmount command was run
    stage,            \* per image: how far main got with it
    interrupted,      \* a KeyboardInterrupt was delivered
    report            \* the images main lists at the end as not converted

walk_vars == << files, todo, cur_dir, walk, input_voblist, input_disclist,
                last_disc_num, has_vobs >>
ctl_vars == << mode, overwrite, same_dir, iso_paths,
                    ffprobe_command, transcode_string,
               idx, left_to_process, unreadable, move_errors, errors,
               mount_dirs, mounts, mount_point, vob_dirs, mylists, out_files,
               ffmpeg_calls, unmount_issued, stage, interrupted, report >>
vars == << pc, messages, walk_vars, ctl_vars >>

(***************************************************************************)
(* The discovery loops.                                                    *)
(***************************************************************************)
\* fname.split("_")[0] == "VTS" and fname.split(".")[-1] == "VOB"
Matches(fname) ==
    /\ Split(fname, "_")[1] = VTS
    /\ Last(Split(fname, ".")) = VOB

\* disc_num = fname.split("_")[1]
DiscField(fname) == Split(fname, "_")[2]

\* vob_num = fname.split("_")[-1]; vob_num = vob_num.split(".")[0]
VobField(fname) == Split(Last(Split(fname, "_")), ".")[1]

\* "if vob_num_int > 0" (lines 609, 615, 765, 773), "if vob_num > 0" (685)
IncludesMenuUnit(vob_num_int) == vob_num_int >= 0

IsContentUnit(vob_num_int) == vob_num_int > 0

\* The body of the loop of cat_move_vobs_to_local and py_move_vobs_to_local
\* for one file: st holds input_voblist, input_disclist, last_disc_num;
\* raised is set when int() raises ValueError.
VisitGrouping(st, f) ==
    LET fname == f[2] IN
    IF ~Matches(fname) THEN st
    ELSE IF ~IsInt(VobField(fname)) \/ ~IsInt(DiscField(fname))
    THEN [st EXCEPT !.raised = TRUE]
    ELSE
      LET vob_num_int == IntOf(VobField(fname))
          disc_num_int == IntOf(DiscField(fname))
      IN  IF disc_num_int = st.last
          THEN [st EXCEPT !.voblist =
                   IF IsContentUnit(vob_num_int) THEN Append(@, PathOf(f))
                   ELSE @]
          ELSE IF disc_num_int > st.last
          THEN [st EXCEPT
                   !.disclist = Append(@, Sorted(st.voblist)),
                   !.voblist = IF IsContentUnit(vob_num_int)
                               THEN << PathOf(f) >> ELSE << >>,
                   !.last = disc_num_int]
          ELSE [st EXCEPT !.last = disc_num_int]

\* The body of the loop of ffmpeg_move_vobs_to_local for one file.
VisitFlat(st, f) ==
    LET fname == f[2] IN
    IF ~Matches(fname) THEN st
    ELSE IF ~IsInt(VobField(fname)) THEN [st EXCEPT !.raised = TRUE]
    ELSE IF IsContentUnit(IntOf(VobField(fname)))
    THEN [st EXCEPT !.voblist = Append(@, PathOf(f))]
    ELSE st

Visit(m, st, f) == IF m = 2 THEN VisitFlat(st, f) ELSE VisitGrouping(st, f)

\* os.walk lists one directory after the other: the next file is of the
\* directory being listed while it has files left, of any directory otherwise
CanYield(f) ==
    /\ f \in todo
    /\ (\E g \in todo : g[1] = cur_dir) => f[1] = cur_dir

\* one iteration of "for fname in file_list"
WalkStep ==
    /\ pc = "walk"
    /\ \E f \in todo :
         /\ CanYield(f)
         /\ LET st == Visit(mode,
                         [voblist |-> input_voblist, disclist |-> input_disclist,
                          last |-> last_disc_num, raised |-> FALSE], f)
            IN  /\ todo' = todo \ {f}
                /\ cur_dir' = f[1]
                /\ walk' = Append(walk, f)
                /\ input_voblist' = st.voblist
                /\ input_disclist' = st.disclist
                /\ last_disc_num' = st.last
                \* the ValueError is caught nowhere: main ends with a traceback
                /\ pc' = IF st.raised THEN "crashed" ELSE "walk"
                /\ messages' = IF st.raised
                               THEN messages \cup {"Traceback: ValueError"}
                               ELSE messages
    /\ UNCHANGED << files, has_vobs, ctl_vars >>

\* after the walk: "if len(input_voblist) == 0: has_vobs = False; else: ..."
WalkEnd ==
    /\ pc = "walk"
    /\ todo = {}
    /\ has_vobs' = (Len(input_voblist) # 0)
    /\ input_voblist' = Sorted(input_voblist)
    /\ input_disclist' =
         IF mode # 2 /\ Len(input_voblist) # 0
         THEN Append(input_disclist, Sorted(input_voblist))
         ELSE input_disclist
    /\ pc' = "local"
    /\ UNCHANGED << files, todo, cur_dir, walk, last_disc_num, messages,
                    ctl_vars >>

(***************************************************************************)
(* The batch.  process_files is the sorted list of images; image i is its  *)
(* i-th entry.                                                             *)
(***************************************************************************)
Images == 1..NumImages

RECURSIVE Upto(_)
Upto(n) == IF n = 0 THEN << >> ELSE Append(Upto(n - 1), n)

\* process_files = sorted(process_files)
process_files == Upto(NumImages)

ISO == << ".", "i", "s", "o" >>
\* output_ext of the H.264 and H.265 formats
OutputExt == << ".", "m", "p", "4" >>

Digit(i) == CHOOSE c \in Digits : Ord(c) = 48 + i

\* the images of a directory scanned without -r: in/d1.iso, in/d2.iso, ...
FlatBatch ==
    [i \in Images |-> << << "i", "n" >>, << "d", Digit(i) >> \o ISO >>]

\* the images dir_recurse finds with -r when every sub-directory holds an
\* image of the one name: in/1/d1.iso, in/2/d1.iso, ...
RecursedBatch ==
    [i \in Images |-> << << "i", "n", "/", Digit(i) >>, << "d", "1" >> \o ISO >>]

\* os.path.splitext(file_path)[1]
Extension(fname) == << "." >> \o Last(Split(fname, "."))

\* file_name.replace(extension, output_ext), for a name that holds its
\* extension once
ReplaceExtension(fname, ext) ==
    SubSeq(fname, 1, Len(fname) - Len(Extension(fname))) \o ext

Range(q) == { q[i] : i \in 1..Len(q) }

\* list.remove(x): removes the first entry equal to x
RECURSIVE Remove(_, _)
Remove(q, x) ==
    IF q = << >> THEN << >>
    ELSE IF Head(q) = x THEN Tail(q)
    ELSE << Head(q) >> \o Remove(Tail(q), x)

RECURSIVE Flatten(_)
Flatten(qq) == IF qq = << >> THEN << >> ELSE Head(qq) \o Flatten(Tail(qq))

\* what an image of the batch can hold: nothing; a menu unit and two
\* segments of disc 1; one segment on each of two discs; a segment of disc 2
\* only; a name with a non-numeric field; a segment of disc 1 and the menu
\* unit of disc 2
D01 == << "0", "1" >>
D02 == << "0", "2" >>
ImageLayouts ==
    { {},
      { << DirA, Fname(D01, << "0" >>) >>, << DirA, Fname(D01, << "1" >>) >>,
        << DirA, Fname(D01, << "2" >>) >> },
      { << DirA, Fname(D01, << "1" >>) >>, << DirA, Fname(D02, << "1" >>) >> },
      { << DirA, Fname(D02, << "1" >>) >> },
      { << DirA, Fname(<< "A" >>, << "1" >>) >> },
      { << DirA, Fname(D01, << "1" >>) >>, << DirA, Fname(D02, << "0" >>) >> } }

\* a directory or a table with nothing in it
NoFiles == [n \in {} |-> << >>]

NoDir == [exists |-> FALSE, files |-> NoFiles]

\* the state of main when it enters the loop over process_files
InitBatch ==
    /\ idx = 1
    /\ pc = "mount"
    /\ left_to_process = process_files
    /\ files = {} /\ todo = {} /\ cur_dir = << >> /\ walk = << >>
    /\ input_voblist = << >> /\ input_disclist = << >>
    /\ last_disc_num = 1
    /\ has_vobs = FALSE /\ move_errors = FALSE /\ errors = FALSE
    /\ unreadable = {} /\ report = << >>
    /\ mount_dirs = {} /\ mounts = {} /\ mount_point = 0
    /\ vob_dirs = [i \in Images |-> NoDir]
    /\ mylists = NoFiles /\ out_files = {}
    /\ ffmpeg_calls = << >> /\ messages = {}
    /\ unmount_issued = {}
    /\ stage = [i \in Images |-> "pending"]
    /\ interrupted = FALSE

\* same_dir is read by remove_cat_list only, for the list of mode 2; ffprobe
\* is not installed (ffprobe_path is "", line 243) and the format is H.264
Init ==
    /\ mode \in {1, 2, 3}
    /\ overwrite \in BOOLEAN
    /\ same_dir \in BOOLEAN
    /\ mode # 2 => same_dir
    /\ iso_paths = FlatBatch
    /\ ffprobe_command = FALSE
    /\ transcode_string = S640x480
    /\ InitBatch

(***************************************************************************)
(* Mounting: main lines 334-357 and mount_image.                           *)
(***************************************************************************)
\* "while mount_point_exists": the first k with no directory iso_volume_k
NextMountPoint(dirs) == CHOOSE k \in 0..Cardinality(dirs) :
                            k \notin dirs /\ \A j \in 0..(k - 1) : j \in dirs

\* the name of the .VOBS directory of image i in the output directory:
\* f"{output_path}{os.path.basename(iso)}.VOBS"
WorkDir(i) == Basename(PathOf(iso_paths[i])) \o << ".", "V", "O", "B", "S" >>

\* vob_dirs holds a directory at the first image that has its name
W(i) == CHOOSE j \in Images :
            /\ WorkDir(j) = WorkDir(i)
            /\ \A k \in 1..(j - 1) : WorkDir(k) # WorkDir(i)

\* file_name.replace(extension, output_ext) of the output directory
OutputName(i) == ReplaceExtension(Basename(PathOf(iso_paths[i])), OutputExt)

\* the final output of an image: parts is << >> for <name><ext>
Dest(i, parts) == [iso |-> OutputName(i), parts |-> parts]

\* the next iteration of "for iso in process_files"
Continue ==
    /\ idx' = idx + 1
    /\ pc' = "mount"

\* what the walk starts from: lines 589-591, 670, 743-747
StartWalk(fs) ==
    /\ files' = fs /\ todo' = fs /\ cur_dir' = << >> /\ walk' = << >>
    /\ input_voblist' = << >> /\ input_disclist' = << >>
    /\ last_disc_num' = 1
    /\ has_vobs' = FALSE /\ move_errors' = FALSE /\ errors' = FALSE
    /\ unreadable' = {}
    /\ ffmpeg_calls' = << >>

\* os.mkdir(mount_point) raises PermissionError: mount_image logs and calls
\* sys.exit(1)
MountPermissionError ==
    /\ pc = "mount" /\ idx <= NumImages
    /\ pc' = "exited"
    /\ messages' = {"Mounting failed due to permission error"}
    /\ stage' = [stage EXCEPT ![idx] = "mount_denied"]
    /\ UNCHANGED << walk_vars, mode, overwrite, same_dir, iso_paths,
                    ffprobe_command,
                    transcode_string, report, idx, left_to_process,
                    unreadable, move_errors, errors, mount_dirs, mounts, mount_point,
                    vob_dirs, mylists, out_files, ffmpeg_calls,
                    unmount_issued, interrupted >>

\* a failing mount command handled as the permission error is
MountCommandExits ==
    /\ pc = "mount" /\ idx <= NumImages
    /\ mount_dirs' = mount_dirs \cup {NextMountPoint(mount_dirs)}
    /\ messages' = {"Mounting failed"}
    /\ stage' = [stage EXCEPT ![idx] = "mount_failed"]
    /\ pc' = "exited"
    /\ UNCHANGED << walk_vars, mode, overwrite, same_dir, iso_paths,
                    ffprobe_command,
                    transcode_string, report, idx, left_to_process,
                    unreadable, move_errors, errors, mounts, mount_point, vob_dirs,
                    mylists, out_files, ffmpeg_calls, unmount_issued,
                    interrupted >>

\* the mount command returns a non-zero status: main logs and continues
MountCommandFails ==
    /\ pc = "mount" /\ idx <= NumImages
    /\ mount_dirs' = mount_dirs \cup {NextMountPoint(mount_dirs)}
    /\ messages' = {"Mounting failed"}
    /\ stage' = [stage EXCEPT ![idx] = "mount_failed"]
    /\ Continue
    /\ UNCHANGED << walk_vars, mode, overwrite, same_dir, iso_paths,
                    ffprobe_command,
                    transcode_string, report, left_to_process,
                    unreadable, move_errors, errors, mounts, mount_point, vob_dirs,
                    mylists, out_files, ffmpeg_calls, unmount_issued,
                    interrupted >>

\* the image is mounted; its files, and whether its output exists already,
\* are what the run finds (an output that exists matters only when overwrite
\* is off)
MountOk ==
    /\ pc = "mount" /\ idx <= NumImages
    /\ LET k == NextMountPoint(mount_dirs) IN
         /\ mount_dirs' = mount_dirs \cup {k}
         /\ mounts' = mounts \cup { << idx, k >> }
         /\ mount_point' = k
    /\ \E fs \in ImageLayouts : StartWalk(fs)
    /\ \E old \in SUBSET { Dest(idx, << >>) } :
         /\ overwrite => old = {}
         /\ out_files' = out_files \cup old
    /\ messages' = {}
    /\ stage' = [stage EXCEPT ![idx] = "mounted"]
    /\ pc' = "walk"
    /\ UNCHANGED << mode, overwrite, same_dir, iso_paths,
                    ffprobe_command,
                    transcode_string, report, idx, left_to_process, vob_dirs,
                    mylists, unmount_issued, interrupted >>

(***************************************************************************)
(* After the walk: the rest of the three *_move_vobs_to_local functions    *)
(* and the branch main takes on what they return.                          *)
(*                                                                         *)
(* A file of a .VOBS directory is named << "vob", 0 >> for <root>.vob,     *)
(* << "vob", k >> for <root>_k.vob and << "seg", v_name >> for the encode  *)
(* of segment v_name; what it holds is the list of the segments copied     *)
(* into it, each << path, "whole" >> or << path, "part" >> (some, maybe    *)
(* none, of its bytes).                                                    *)
(***************************************************************************)
Whole(paths) == [j \in 1..Len(paths) |-> << paths[j], "whole" >>]

\* what sequential copying of paths leaves in the destination when the
\* segments of bad fail while they are read
Copied(paths, bad) ==
    [j \in 1..Len(paths) |->
        << paths[j], IF paths[j] \in bad THEN "part" ELSE "whole" >>]

\* os.mkdir(out_dir), "except OSError: pass": the directory exists afterwards
MkDir(dirs, i) == [dirs EXCEPT ![W(i)].exists = TRUE]

PutFiles(dirs, i, new) == [dirs EXCEPT ![W(i)].files = new @@ @]

\* remove_cat_list(file, output_dir): removes <output_dir><basename>.mylist.txt,
\* which is the list written beside the image only if output_dir is the
\* directory of the image
RemoveCatList(lists, i) ==
    IF same_dir THEN [j \in DOMAIN lists \ {i} |-> lists[j]] ELSE lists

\* the shell command of cat_move_vobs_to_local: with more than one group a
\* chain "/bin/cat ... > <root>_k.vob && ...", which stops after the first cat
\* that fails; else one "cat ... > <root>.vob" (no redirection with no group).
\* cat goes on to its next operand after one it cannot read.
CatFiles(disclist, bad) ==
    LET n == Len(disclist)
        Fails(k) == \E j \in 1..Len(disclist[k]) : disclist[k][j] \in bad
        Runs(k) == \A j \in 1..(k - 1) : ~Fails(j)
    IN  IF n > 1
        THEN [name \in { << "vob", k >> : k \in { j \in 1..n : Runs(j) } } |->
                 Copied(disclist[name[2]], bad)]
        ELSE [name \in { << "vob", 0 >> : k \in 1..n } |->
                 Copied(disclist[1], bad)]

\* run_command(command, powershell=True) on a system other than Windows, where
\* mode 1 is: subprocess.run is given the list ["powershell.exe", "-NoProfile",
\* "-Command", command] with shell=True, so /bin/sh runs "powershell.exe" alone
\* and the other items are its positional parameters.  The text of command is
\* run only with powershell=False; written is what it writes when it is run.
RunCommand(written, powershell) == IF powershell THEN NoFiles ELSE written

\* mode 1: cat_move_vobs_to_local lines 627-656 and main lines 363-387.  No
\* segment is read, the command not being run, and the status of run_command
\* is not looked at.
CatLocal ==
    /\ pc = "local" /\ mode = 1
    /\ unreadable' = {}
    /\ vob_dirs' = PutFiles(MkDir(vob_dirs, idx), idx,
                            RunCommand(CatFiles(input_disclist, {}), TRUE))
    /\ stage' = [stage EXCEPT ![idx] = IF has_vobs THEN "merging" ELSE "no_vobs"]
    /\ messages' = IF has_vobs THEN messages
                   ELSE messages \cup {"No VOBs found"}
    /\ pc' = IF has_vobs THEN "transcode" ELSE "cleanup"
    /\ UNCHANGED << walk_vars, mode, overwrite, same_dir, iso_paths,
                    ffprobe_command,
                    transcode_string, report, idx, left_to_process,
                    move_errors, errors, mount_dirs, mounts, mount_point,
                    mylists, out_files, ffmpeg_calls, unmount_issued,
                    interrupted >>

(***************************************************************************)
(* The resolution probe in front of an encode (lines 707-719, 845-857,     *)
(* 878-890).                                                               *)
(***************************************************************************)
\* what ffprobe can write to stdout for a file: width,height of two sizes,
\* nothing (it failed), and two texts that are no size
ProbeOutputs ==
    { << "7", "2", "0", ",", "4", "8", "0", "\n" >>,
      << "7", "2", "0", ",", "5", "7", "6", "\n" >>,
      << >>,
      << "N", "/", "A", ",", "N", "/", "A", "\n" >>,
      << "N", "/", "A", "\n" >> }

\* the probe is run for a file only with ffprobe_command set and
\* "-s 640x480" in the transcode_string of main
ProbeChoices ==
    IF ffprobe_command /\ transcode_string = S640x480 THEN ProbeOutputs
    ELSE { << >> }

\* str.rstrip()
RECURSIVE Rstrip(_)
Rstrip(s) ==
    IF s # << >> /\ Last(s) \in {" ", "\n"}
    THEN Rstrip(SubSeq(s, 1, Len(s) - 1))
    ELSE s

\* get_res = get_res.stdout.rstrip().split(",")
GetRes(stdout) == Split(Rstrip(stdout), ",")

\* get_res[1] raises IndexError, which "except Exception: pass" swallows
ProbeRaises(stdout) == Len(GetRes(stdout)) < 2

\* source_res = f"{get_res[0]}x{get_res[1]}"
SourceRes(stdout) == GetRes(stdout)[1] \o << "x" >> \o GetRes(stdout)[2]

\* the transcode_string of the function after the probe block for one file:
\* transcode_string.replace("640x480", source_res) when the block is entered
\* and nothing raises
Probed(ts, stdout) ==
    IF ffprobe_command /\ ts = S640x480 /\ ~ProbeRaises(stdout)
    THEN SourceRes(stdout)
    ELSE ts

(***************************************************************************)
(* An entry of ffmpeg_calls is one step of an encode loop: the run_ffmpeg  *)
(* invocation made (kind segment, final or concat), or the skip of it      *)
(* because the destination exists (kind skipped).  size is the size in the *)
(* transcode_string of the command, stdout what ffprobe writes for input.  *)
(***************************************************************************)
\* v_name = v.split(os.sep)[-1]; the encode of a segment is <out_dir><v_name>
\* with ".VOB" replaced by the output extension
SegName(v) == << "seg", Basename(v) >>

\* one iteration of "for v in input_voblist" (lines 702-724)
SegmentStep(st, v, bad, probe) ==
    LET ts == Probed(st.ts, probe[v]) IN
    [ts |-> ts,
     calls |-> Append(st.calls,
                 [kind |-> "segment", input |-> v, dest |-> SegName(v),
                  rc |-> IF v \in bad THEN 1 ELSE 0,
                  size |-> ts, stdout |-> probe[v]])]

RECURSIVE SegmentLoop(_, _, _, _)
SegmentLoop(voblist, bad, probe, k) ==
    IF k = 0 THEN [ts |-> transcode_string, calls |-> << >>]
    ELSE SegmentStep(SegmentLoop(voblist, bad, probe, k - 1),
                     voblist[k], bad, probe)

\* one run_ffmpeg per segment, in the order of input_voblist
SegmentCalls(voblist, bad, probe) ==
    SegmentLoop(voblist, bad, probe, Len(voblist)).calls

\* with " -n " in transcode_string ffmpeg refuses to write a file that is
\* there: the encode of a segment fails when an earlier segment of the same
\* v_name was encoded
RefusedEncodes(voblist, bad) ==
    IF overwrite THEN {}
    ELSE { voblist[j] : j \in { k \in 1..Len(voblist) :
               \E h \in 1..(k - 1) : /\ SegName(voblist[h]) = SegName(voblist[k])
                                     /\ voblist[h] \notin bad } }

\* the encoded segments in the directory afterwards: the last encode that
\* succeeded, of each name
SegFiles(voblist, bad) ==
    LET Good == { j \in 1..Len(voblist) : voblist[j] \notin bad }
        LastOf(name) == CHOOSE j \in Good :
                            /\ SegName(voblist[j]) = name
                            /\ \A k \in Good : SegName(voblist[k]) = name => k <= j
    IN  [name \in { SegName(voblist[j]) : j \in Good } |->
            Whole(<< voblist[LastOf(name)] >>)]

\* mode 2: ffmpeg_move_vobs_to_local lines 695-739, main lines 392-423.
\* The status of the per-segment run_ffmpeg is dropped ("_, stdout = ...").
FfmpegLocal ==
    /\ pc = "local" /\ mode = 2
    /\ \E bad \in SUBSET Range(input_voblist) :
       \E probe \in [Range(input_voblist) -> ProbeChoices] :
         /\ RefusedEncodes(input_voblist, bad) \subseteq bad
         /\ ffmpeg_calls' = SegmentCalls(input_voblist, bad, probe)
         /\ vob_dirs' = PutFiles(MkDir(vob_dirs, idx), idx,
                                 SegFiles(input_voblist, bad))
    /\ mylists' = (idx :> [j \in 1..Len(input_voblist) |->
                              SegName(input_voblist[j])])
                  @@ RemoveCatList(mylists, idx)
    /\ stage' = [stage EXCEPT ![idx] = IF has_vobs THEN "merging" ELSE "no_vobs"]
    /\ messages' = IF has_vobs THEN messages
                   ELSE messages \cup {"No VOBs found"}
    /\ pc' = IF has_vobs THEN "transcode" ELSE "cleanup"
    /\ UNCHANGED << walk_vars, mode, overwrite, same_dir, iso_paths,
                    ffprobe_command,
                    transcode_string, report, idx, left_to_process,
                    unreadable, move_errors, errors, mount_dirs, mounts,
                    mount_point, out_files, unmount_issued, interrupted >>

\* the segments py_move_vobs_to_local copies: every group, in order
CopyList == Flatten(input_disclist)

\* mode 3, every open(vob, "rb") succeeds: py_move_vobs_to_local lines 787-807
\* and main lines 426-446.  A read that raises OSError sets errors and goes on
\* to the next segment; with no VOBs main continues with the next image.
PyLocal ==
    /\ pc = "local" /\ mode = 3
    /\ \E bad \in SUBSET Range(CopyList) :
         /\ unreadable' = bad
         /\ vob_dirs' = PutFiles(MkDir(vob_dirs, idx), idx,
                                 << "vob", 0 >> :> Copied(CopyList, bad))
         /\ move_errors' = (bad # {})
    /\ stage' = [stage EXCEPT ![idx] = IF has_vobs THEN "merging" ELSE "no_vobs"]
    /\ messages' = IF has_vobs THEN messages
                   ELSE messages \cup {"No VOBs found"}
    /\ IF has_vobs THEN pc' = "transcode" /\ idx' = idx ELSE Continue
    /\ UNCHANGED << walk_vars, mode, overwrite, same_dir, iso_paths,
                    ffprobe_command,
                    transcode_string, report, left_to_process, errors,
                    mount_dirs, mounts, mount_point, mylists, out_files,
                    ffmpeg_calls, unmount_issued, interrupted >>

\* mode 3, open(vob, "rb") raises OSError for the n-th segment: the with
\* statement is outside the try, nothing catches it, main ends with a traceback
PyLocalOpenFails ==
    /\ pc = "local" /\ mode = 3
    /\ \E n \in 1..Len(CopyList) :
         /\ unreadable' = { CopyList[n] }
         /\ vob_dirs' = PutFiles(MkDir(vob_dirs, idx), idx,
                           << "vob", 0 >> :> Whole(SubSeq(CopyList, 1, n - 1)))
    /\ stage' = [stage EXCEPT ![idx] = "merging"]
    /\ messages' = messages \cup {"Traceback: OSError"}
    /\ pc' = "crashed"
    /\ UNCHANGED << walk_vars, mode, overwrite, same_dir, iso_paths,
                    ffprobe_command,
                    transcode_string, report, idx, left_to_process,
                    move_errors, errors, mount_dirs, mounts, mount_point,
                    mylists, out_files, ffmpeg_calls, unmount_issued,
                    interrupted >>

(***************************************************************************)
(* The final encodes.                                                      *)
(***************************************************************************)
\* the orders os.listdir can give the names of S in
Orders(S) == { q \in [1..Cardinality(S) -> S] : Range(q) = S }

\* v.endswith(".vob")
VobNames(i) == { name \in DOMAIN vob_dirs[W(i)].files : name[1] = "vob" }

\* concat_transcode_vobs: the destination of the k-th of n intermediates.
\* With one it is <output_path><name><ext>.  With several, output_path is
\* assigned <output_path><name>_<inc><ext> in every iteration (line 874), so
\* the k-th destination is the (k-1)-th followed by <name>_<k><ext>: parts
\* lists the numbers it carries.
DestAt(i, n, k) == IF n = 1 THEN Dest(i, << >>) ELSE Dest(i, Upto(k))

\* os.path.exists(output_path) and " -n " in transcode_string
Skipped(dest) == dest \in out_files /\ ~overwrite

Failed(calls) == \E j \in 1..Len(calls) : calls[j].rc # 0

\* the encode loop left at the first non-zero status
FinalStepBreak(st, i, n, k, name, bad, probe) ==
    LET ts == Probed(st.ts, probe[name])
        dest == DestAt(i, n, k)
    IN  IF Failed(st.calls) THEN st
        ELSE [ts |-> ts,
              calls |-> Append(st.calls,
                 [kind |-> IF Skipped(dest) THEN "skipped" ELSE "final",
                  input |-> name, dest |-> dest,
                  rc |-> IF name \in bad /\ ~Skipped(dest) THEN 1 ELSE 0,
                  size |-> ts, stdout |-> probe[name]])]

\* concat_transcode_vobs for the k-th of n intermediates (lines 840-870 with
\* one, one iteration of lines 872-909 with several): the probe, then the
\* encode unless the destination exists and overwrite is off
FinalStep(st, i, n, k, name, bad, probe) ==
    LET ts == Probed(st.ts, probe[name])
        dest == DestAt(i, n, k)
    IN  [ts |-> ts,
         calls |-> Append(st.calls,
            [kind |-> IF Skipped(dest) THEN "skipped" ELSE "final",
             input |-> name, dest |-> dest,
             rc |-> IF name \in bad /\ ~Skipped(dest) THEN 1 ELSE 0,
             size |-> ts, stdout |-> probe[name]])]

RECURSIVE FinalLoop(_, _, _, _, _)
FinalLoop(i, vob_list, bad, probe, k) ==
    IF k = 0 THEN [ts |-> transcode_string, calls |-> << >>]
    ELSE FinalStep(FinalLoop(i, vob_list, bad, probe, k - 1),
                   i, Len(vob_list), k, vob_list[k], bad, probe)

\* the steps of concat_transcode_vobs for the intermediates in the order
\* vob_list, the encodes of bad returning a non-zero status
FinalCalls(i, vob_list, bad, probe) ==
    FinalLoop(i, vob_list, bad, probe, Len(vob_list)).calls

Invoked(calls) == { j \in 1..Len(calls) : calls[j].kind # "skipped" }

Produced(calls) == { calls[j].dest : j \in { k \in Invoked(calls) : calls[k].rc = 0 } }

\* "if not concat_errors or not move_errors"
ConvertedEither(concat_errors, mv_errors) == ~concat_errors \/ ~mv_errors

\* main: "if not errors" (lines 381, 417), "if not concat_errors and not
\* move_errors" (line 457)
Converted(concat_errors, mv_errors) == ~concat_errors /\ ~mv_errors

\* modes 1 and 3: concat_transcode_vobs, then main lines 381-385 and 457-463
Transcode ==
    /\ pc = "transcode" /\ mode # 2
    /\ \E vob_list \in Orders(VobNames(idx)) :
       \E bad \in SUBSET VobNames(idx) :
       \E probe \in [VobNames(idx) -> ProbeChoices] :
         LET calls == FinalCalls(idx, vob_list, bad, probe)
         IN  /\ bad \subseteq { calls[j].input : j \in Invoked(calls) }
             /\ ffmpeg_calls' = ffmpeg_calls \o calls
             /\ errors' = Failed(calls)
             /\ out_files' = out_files \cup Produced(calls)
             /\ messages' = IF \E j \in 1..Len(calls) : calls[j].kind = "skipped"
                            THEN messages \cup {"not overwritten"}
                            ELSE messages
             /\ left_to_process' =
                  IF Converted(Failed(calls), move_errors)
                  THEN Remove(left_to_process, idx)
                  ELSE left_to_process
    /\ pc' = "cleanup"
    /\ UNCHANGED << walk_vars, mode, overwrite, same_dir, iso_paths,
                    ffprobe_command,
                    transcode_string, report, idx, unreadable, move_errors,
                    mount_dirs, mounts, mount_point, vob_dirs, mylists,
                    unmount_issued, stage, interrupted >>

\* mode 2: ffmpeg_concatenate_vobs, then main lines 417-421.  The
\* remove_cat_list of line 948 is given the path of the output file as its
\* directory and finds no list there.
Concatenate ==
    /\ pc = "transcode" /\ mode = 2
    /\ \E rc \in {0, 1} :
         LET dest == Dest(idx, << >>)
             calls == << [kind |-> IF Skipped(dest) THEN "skipped" ELSE "concat",
                          input |-> << "mylist" >>, dest |-> dest, rc |-> rc,
                          size |-> NoSize, stdout |-> << >>] >>
         IN  /\ Skipped(dest) => rc = 0
             /\ ffmpeg_calls' = ffmpeg_calls \o calls
             /\ errors' = Failed(calls)
             /\ out_files' = out_files \cup Produced(calls)
             /\ messages' = IF Skipped(dest)
                            THEN messages \cup {"not overwritten"}
                            ELSE messages
             /\ left_to_process' =
                  IF Converted(Failed(calls), FALSE)
                  THEN Remove(left_to_process, idx)
                  ELSE left_to_process
    /\ pc' = "cleanup"
    /\ UNCHANGED << walk_vars, mode, overwrite, same_dir, iso_paths,
                    ffprobe_command,
                    transcode_string, report, idx, unreadable, move_errors,
                    mount_dirs, mounts, mount_point, vob_dirs, mylists,
                    unmount_issued, stage, interrupted >>

(***************************************************************************)
(* cleanup(), on a system other than Windows.                              *)
(***************************************************************************)
\* remove_temp_files: os.listdir raises FileNotFoundError when the .VOBS
\* directory does not exist
ListdirRaises(i) == ~vob_dirs[W(i)].exists

\* remove_temp_files otherwise: the files and the directory are removed, then
\* remove_cat_list(file, output_dir)
RemoveTemp ==
    /\ vob_dirs' = [vob_dirs EXCEPT ![W(idx)] = NoDir]
    /\ mylists' = RemoveCatList(mylists, idx)

\* unmount_image succeeds, then os.rmdir(mount_point); a PermissionError of
\* os.rmdir is logged
UnmountOk(rmdir_ok) ==
    /\ mounts' = mounts \ { << idx, mount_point >> }
    /\ unmount_issued' = unmount_issued \cup {idx}
    /\ mount_dirs' = IF rmdir_ok THEN mount_dirs \ {mount_point} ELSE mount_dirs

\* what cleanup logs for the os.rmdir of the mount point (lines 513-516)
RmdirLog(rmdir_ok) ==
    IF rmdir_ok THEN {} ELSE {"Unable to remove the mount point"}

\* cleanup line 491 on the normal path (main line 466)
RemoveTempFiles ==
    /\ pc = "cleanup"
    /\ IF ListdirRaises(idx)
       THEN /\ pc' = "crashed"
            /\ messages' = messages \cup {"Traceback: FileNotFoundError"}
            /\ UNCHANGED << vob_dirs, mylists >>
       ELSE /\ pc' = "unmount"
            /\ RemoveTemp
            /\ UNCHANGED messages
    /\ UNCHANGED << walk_vars, mode, overwrite, same_dir, iso_paths,
                    ffprobe_command,
                    transcode_string, report, idx, left_to_process,
                    unreadable, move_errors, errors, mount_dirs, mounts, mount_point,
                    out_files, ffmpeg_calls, unmount_issued, stage,
                    interrupted >>

\* cleanup lines 505-516 on the normal path, then the next image
Unmount ==
    /\ pc = "unmount"
    /\ \E rmdir_ok \in BOOLEAN :
         /\ UnmountOk(rmdir_ok)
         /\ messages' = messages \cup RmdirLog(rmdir_ok)
    /\ stage' = [stage EXCEPT ![idx] = "cleaned"]
    /\ Continue
    /\ UNCHANGED << walk_vars, mode, overwrite, same_dir, iso_paths,
                    ffprobe_command,
                    transcode_string, report,
                    left_to_process, unreadable, move_errors, errors, mount_point,
                    vob_dirs, mylists, out_files, ffmpeg_calls, interrupted >>

\* the unmount command fails: unmount_image returns False, which cleanup
\* ignores; os.rmdir of the busy mount point then raises an OSError that is
\* not a PermissionError, and nothing catches it
UnmountFails ==
    /\ pc = "unmount"
    /\ unmount_issued' = unmount_issued \cup {idx}
    /\ messages' = messages \cup {"Traceback: OSError"}
    /\ pc' = "crashed"
    /\ UNCHANGED << walk_vars, mode, overwrite, same_dir, iso_paths,
                    ffprobe_command,
                    transcode_string, report, idx, left_to_process,
                    unreadable, move_errors, errors, mount_dirs, mounts, mount_point,
                    vob_dirs, mylists, out_files, ffmpeg_calls, stage,
                    interrupted >>

(***************************************************************************)
(* KeyboardInterrupt inside the try of main (lines 359-472): the handler   *)
(* logs, calls cleanup() and then sys.exit(1).                             *)
(***************************************************************************)
InTry == pc \in {"walk", "local", "transcode", "cleanup", "unmount"}

\* the cleanup() of the handler raises in remove_temp_files: the .VOBS
\* directory is not there (not yet created, or already removed)
InterruptCleanupRaises ==
    /\ InTry /\ ~interrupted
    /\ ListdirRaises(idx)
    /\ interrupted' = TRUE
    /\ messages' = messages \cup {"User has quit the script",
                                  "Traceback: FileNotFoundError"}
    /\ pc' = "crashed"
    /\ UNCHANGED << walk_vars, mode, overwrite, same_dir, iso_paths,
                    ffprobe_command,
                    transcode_string, report, idx, left_to_process,
                    unreadable, move_errors, errors, mount_dirs, mounts, mount_point,
                    vob_dirs, mylists, out_files, ffmpeg_calls,
                    unmount_issued, stage >>

\* the cleanup() of the handler runs to its end, then sys.exit(1)
InterruptCleanup ==
    /\ InTry /\ ~interrupted
    /\ ~ListdirRaises(idx)
    /\ interrupted' = TRUE
    /\ RemoveTemp
    /\ \E rmdir_ok \in BOOLEAN :
         /\ UnmountOk(rmdir_ok)
         /\ messages' = messages \cup {"User has quit the script"}
                                   \cup RmdirLog(rmdir_ok)
    /\ pc' = "exited"
    /\ UNCHANGED << walk_vars, mode, overwrite, same_dir, iso_paths,
                    ffprobe_command,
                    transcode_string, report, idx, left_to_process,
                    unreadable, move_errors, errors, mount_point, out_files, ffmpeg_calls,
                    stage >>

\* after the loop: main lines 475-483
Report ==
    /\ pc = "mount" /\ idx > NumImages
    /\ pc' = "done"
    /\ messages' = {"Completed processing"}
    /\ report' = left_to_process
    /\ UNCHANGED << walk_vars, mode, overwrite, same_dir, iso_paths,
                    ffprobe_command,
                    transcode_string, idx, left_to_process, unreadable,
                    move_errors, errors, mount_dirs, mounts, mount_point,
                    vob_dirs, mylists, out_files, ffmpeg_calls,
                    unmount_issued, stage, interrupted >>

Next ==
    \/ MountPermissionError
    \/ MountCommandFails
    \/ MountOk
    \/ WalkStep
    \/ WalkEnd
    \/ CatLocal
    \/ FfmpegLocal
    \/ PyLocal
    \/ PyLocalOpenFails
    \/ Transcode
    \/ Concatenate
    \/ RemoveTempFiles
    \/ Unmount
    \/ UnmountFails
    \/ InterruptCleanupRaises
    \/ InterruptCleanup
    \/ Report

Spec == Init /\ [][Next]_vars

(***************************************************************************)
(* The discovery pass alone: the first image has just been mounted and     *)
(* holds any MaxFiles files of DiscFiles.                                  *)
(***************************************************************************)
InitCatalog ==
    /\ mode \in {1, 2, 3}
    /\ overwrite \in BOOLEAN
    /\ same_dir = TRUE
    /\ iso_paths = FlatBatch
    /\ ffprobe_command = FALSE
    /\ transcode_string = S640x480
    /\ idx = 1
    /\ pc = "walk"
    /\ left_to_process = process_files
    /\ files \in { fs \in SUBSET DiscFiles : Cardinality(fs) <= MaxFiles }
    /\ todo = files /\ cur_dir = << >> /\ walk = << >>
    /\ input_voblist = << >> /\ input_disclist = << >>
    /\ last_disc_num = 1
    /\ has_vobs = FALSE /\ move_errors = FALSE /\ errors = FALSE
    /\ unreadable = {} /\ report = << >>
    /\ mount_dirs = {0} /\ mounts = { << 1, 0 >> } /\ mount_point = 0
    /\ vob_dirs = [i \in Images |-> NoDir]
    /\ mylists = NoFiles /\ out_files = {}
    /\ ffmpeg_calls = << >> /\ messages = {}
    /\ unmount_issued = {}
    /\ stage = [i \in Images |-> IF i = 1 THEN "mounted" ELSE "pending"]
    /\ interrupted = FALSE

NextCatalog ==
    \/ WalkStep
    \/ WalkEnd
    \/ CatLocal
    \/ FfmpegLocal
    \/ PyLocal
    \/ PyLocalOpenFails

SpecCatalog == InitCatalog /\ [][NextCatalog]_vars

(***************************************************************************)
(* The merge of one image: the first image has just been mounted, with any *)
(* format and ffprobe installed or not; its output and its .VOBS directory  *)
(* may exist already.                                                      *)
(***************************************************************************)
\* the .VOBS directory an earlier run of the image left behind, which
\* os.mkdir(out_dir) "except OSError: pass" accepts: one intermediate in it
EarlierDir ==
    [exists |-> TRUE,
     files |-> << "vob", 1 >> :> Whole(<< << DirA, Fname(D01, << "1" >>) >> >>)]

InitMerge ==
    /\ mode \in {1, 2, 3}
    /\ overwrite \in BOOLEAN
    /\ same_dir = TRUE
    /\ iso_paths = FlatBatch
    /\ ffprobe_command \in BOOLEAN
    /\ transcode_string \in {S640x480, NoSize}
    /\ idx = 1
    /\ pc = "walk"
    /\ left_to_process = process_files
    /\ files \in ImageLayouts
    /\ todo = files /\ cur_dir = << >> /\ walk = << >>
    /\ input_voblist = << >> /\ input_disclist = << >>
    /\ last_disc_num = 1
    /\ has_vobs = FALSE /\ move_errors = FALSE /\ errors = FALSE
    /\ unreadable = {} /\ report = << >>
    /\ mount_dirs = {0} /\ mounts = { << 1, 0 >> } /\ mount_point = 0
    /\ \E d \in {NoDir, EarlierDir} :
         vob_dirs = [i \in Images |-> IF i = 1 THEN d ELSE NoDir]
    /\ mylists = NoFiles
    /\ out_files \in SUBSET { Dest(1, << >>) }
    /\ overwrite => out_files = {}
    /\ ffmpeg_calls = << >> /\ messages = {}
    /\ unmount_issued = {}
    /\ stage = [i \in Images |-> IF i = 1 THEN "mounted" ELSE "pending"]
    /\ interrupted = FALSE

NextMerge ==
    \/ WalkStep
    \/ WalkEnd
    \/ CatLocal
    \/ FfmpegLocal
    \/ PyLocal
    \/ PyLocalOpenFails
    \/ Transcode
    \/ Concatenate

SpecMerge == InitMerge /\ [][NextMerge]_vars

(***************************************************************************)
(* The batch of a recursive scan: the images may be in sub-directories of  *)
(* the input directory, with the output directory above them.              *)
(***************************************************************************)
InitNames ==
    /\ mode \in {1, 2, 3}
    /\ overwrite \in BOOLEAN
    /\ iso_paths \in {FlatBatch, RecursedBatch}
    /\ same_dir = (iso_paths = FlatBatch)
    /\ ffprobe_command = FALSE
    /\ transcode_string = S640x480
    /\ InitBatch

SpecNames == InitNames /\ [][Next]_vars

(***************************************************************************)
(* The terms of the specification: a Segment is a file named               *)
(* <PREFIX>_<discNumber>_<sequenceNumber>.<EXT> with both numbers numeric. *)
(***************************************************************************)
FullForm(fname) ==
    LET p == Split(fname, "_") IN
    /\ Len(p) = 3
    /\ p[1] = VTS
    /\ IsInt(p[2])
    /\ LET q == Split(p[3], ".") IN Len(q) = 2 /\ IsInt(q[1]) /\ q[2] = VOB

discNumber(f) == IntOf(Split(f[2], "_")[2])
sequenceNumber(f) == IntOf(Split(Split(f[2], "_")[3], ".")[1])

Segments(fs) == { f \in fs : FullForm(f[2]) }
Playable(fs) == { f \in Segments(fs) : sequenceNumber(f) > 0 }
MenuUnits(fs) == { f \in Segments(fs) : sequenceNumber(f) = 0 }

\* the numbers of a path that is in a list of the discovery pass
DiscOfPath(p) == IntOf(DiscField(Basename(p)))
SeqOfPath(p) == IntOf(VobField(Basename(p)))

\* every path that is in a group, in the flat list, in an intermediate file
\* or given to a per-segment encode
HandedOver ==
    Range(input_voblist) \cup Range(Flatten(input_disclist))
    \cup { c[1] : c \in UNION { Range(vob_dirs[W(idx)].files[n]) :
                                  n \in DOMAIN vob_dirs[W(idx)].files } }
    \cup { ffmpeg_calls[j].input :
             j \in { k \in 1..Len(ffmpeg_calls) : ffmpeg_calls[k].kind = "segment" } }

\* the discovery pass has returned its lists
CatalogBuilt == pc = "local"

\* C1: in each of the three discovery passes and for every walk order, no
\* file whose sequenceNumber is 0 is in a group, in the flat list, in an
\* intermediate file or given to an encode.
C1_NoMenuUnitHandedOver ==
    idx \in Images => \A f \in MenuUnits(files) : PathOf(f) \notin HandedOver

\* a menu unit was walked past and other segments were copied or encoded
C1_Witness ==
    /\ pc \in {"transcode", "cleanup"}
    /\ MenuUnits(Range(walk)) # {}
    /\ Range(input_voblist) # {}
    /\ DOMAIN vob_dirs[W(idx)].files # {}

GroupAscending(g) ==
    \A j \in 1..Len(g) : \A k \in (j + 1)..Len(g) : SeqOfPath(g[j]) <= SeqOfPath(g[k])

GroupsByDisc(gs) ==
    \A a \in 1..Len(gs) : \A b \in (a + 1)..Len(gs) :
        \A j \in 1..Len(gs[a]) : \A k \in 1..Len(gs[b]) :
            DiscOfPath(gs[a][j]) < DiscOfPath(gs[b][k])

CatalogOrdered ==
    /\ \A a \in 1..Len(input_disclist) : GroupAscending(input_disclist[a])
    /\ GroupsByDisc(input_disclist)

\* C2: whatever the numbers and the walk order, every group of the Catalog
\* is in ascending sequenceNumber order and the groups are in ascending
\* discNumber order.
C2_AnyWalkOrdered == (CatalogBuilt /\ mode # 2) => CatalogOrdered

\* the walk yields the segments in ascending (discNumber, sequenceNumber)
WalkAscending ==
    \A j \in 1..Len(walk) : \A k \in (j + 1)..Len(walk) :
        (FullForm(walk[j][2]) /\ FullForm(walk[k][2]))
            => \/ discNumber(walk[j]) < discNumber(walk[k])
               \/ /\ discNumber(walk[j]) = discNumber(walk[k])
                  /\ sequenceNumber(walk[j]) <= sequenceNumber(walk[k])

PlayableDiscs == { discNumber(f) : f \in Playable(files) }

\* C3: after a walk in ascending (discNumber, sequenceNumber) order the
\* Catalog of the grouping pass has exactly one group per disc that has a
\* segment with sequenceNumber > 0, holding exactly those segments, and no
\* other group.
C3_OneGroupPerPlayableDisc ==
    (CatalogBuilt /\ mode # 2 /\ WalkAscending) =>
        /\ Len(input_disclist) = Cardinality(PlayableDiscs)
        /\ \A d \in PlayableDiscs : \E a \in 1..Len(input_disclist) :
             /\ Range(input_disclist[a]) =
                  { PathOf(f) : f \in { g \in Playable(files) : discNumber(g) = d } }
             /\ Len(input_disclist[a]) = Cardinality(Range(input_disclist[a]))

\* C5: a file whose name is not of the full form is ignored by the discovery
\* pass: it is put in no list and int() raises no ValueError for it.
C5_MalformedNameIgnored ==
    (idx \in Images /\ pc \in {"walk", "local", "crashed"}) =>
        \A j \in 1..Len(walk) :
            ~FullForm(walk[j][2]) =>
                /\ PathOf(walk[j]) \notin HandedOver
                /\ "Traceback: ValueError" \notin messages

(***************************************************************************)
(* The per-image loop of main.                                             *)
(***************************************************************************)
Ended == pc \in {"done", "crashed", "exited"}

\* main is done with image i: it went on to a later image, or the run ended
LeftBehind(i) == i < idx \/ Ended

\* C4: when the mounted image has no segment with sequenceNumber > 0, the
\* discovery pass raises nothing, main reports that no VOBs were found and
\* makes no run_ffmpeg invocation for the image, in each mode.
C4_NoPlayableSegmentNoEncode ==
    \A i \in Images :
        (i = idx /\ stage[i] \in {"mounted", "no_vobs", "merging"}
           /\ Playable(files) = {})
        => /\ "Traceback: ValueError" \notin messages
           /\ ffmpeg_calls = << >>
           /\ stage[i] # "merging"
           /\ pc \in {"cleanup", "unmount"} => "No VOBs found" \in messages

\* C6: in every mode, when the Catalog of a mounted image is empty, its
\* temporary files are removed and its unmount is issued before main goes on
\* to the next image, and the image stays in left_to_process.
C6_EmptyCatalogStillCleaned ==
    \A i \in Images :
        (stage[i] \in {"no_vobs", "cleaned"} /\ idx = i + 1 /\ pc = "mount"
           /\ input_disclist = << >> /\ input_voblist = << >>)
        => /\ i \in unmount_issued
           /\ ~vob_dirs[W(i)].exists
           /\ i \in Range(left_to_process)

\* C7: every image whose merge step was started has its temporary files
\* removed and its unmount issued by the time main is done with it, whatever
\* happened in the merge step (no interrupt being involved).
C7_MergedImageCleaned ==
    \A i \in Images :
        (stage[i] \in {"merging", "cleaned"} /\ LeftBehind(i) /\ ~interrupted)
        => (i \in unmount_issued /\ ~vob_dirs[W(i)].exists)

\* C8: when an interrupt was delivered while an image was mounted, the
\* unmount of that image has been issued when the process has ended.
C8_InterruptUnmounts ==
    (interrupted /\ Ended) => idx \in unmount_issued

\* C9: at most one image is mounted at any time.
C9_AtMostOneMounted ==
    \A m1 \in mounts : \A m2 \in mounts : m1[1] = m2[1]

CatalogEmpty == IF mode = 2 THEN input_voblist = << >> ELSE input_disclist = << >>

\* C11: left_to_process starts as the sorted batch; it changes only by losing
\* the entry of the image being processed, once, in a step in which the
\* Catalog of that image is not empty and the merge reports no errors; and
\* the final report lists what is left in it.
C11_LeftToProcess ==
    /\ left_to_process = process_files
    /\ [][ left_to_process' # left_to_process =>
             /\ idx \in Range(left_to_process)
             /\ left_to_process' = Remove(left_to_process, idx)
             /\ idx \notin Range(left_to_process')
             /\ ~CatalogEmpty /\ has_vobs
             /\ ~errors' /\ ~move_errors ]_vars
    /\ [](pc = "done" => report = left_to_process)

\* the first image was converted, the second was not, and the run reported
C11_Witness ==
    /\ pc = "done"
    /\ left_to_process = << 2 >>
    /\ report = << 2 >>
    /\ stage[2] = "cleaned"

\* the merge step of the image main is at has returned
MergeDone == pc = "cleanup" /\ stage[idx] = "merging"

\* the steps of ffmpeg_calls that encode a file: all but the final concat of
\* mode 2
EncodeSteps == { j \in 1..Len(ffmpeg_calls) : ffmpeg_calls[j].input # << "mylist" >> }

\* C12: in every mode, when a run_ffmpeg invocation made for the image
\* returned a non-zero status, the merge reports errors and the image stays
\* in left_to_process.
C12_NonZeroStatusRecorded ==
    (MergeDone /\ Failed(ffmpeg_calls))
        => (errors /\ idx \in Range(left_to_process))

\* C13: a non-zero status of one encode does not end the loop: in modes 1 and
\* 3 every intermediate of the image has its step (encoded, or skipped by the
\* overwrite policy), in mode 2 every segment of input_voblist is encoded, in
\* order.
C13_EveryEncodeAttempted ==
    /\ (MergeDone /\ mode # 2) =>
          /\ { ffmpeg_calls[j].input : j \in 1..Len(ffmpeg_calls) } = VobNames(idx)
          /\ Len(ffmpeg_calls) = Cardinality(VobNames(idx))
    /\ (mode = 2 /\ idx \in Images /\ stage[idx] \in {"merging", "no_vobs"}) =>
          /\ Cardinality(EncodeSteps) = Len(input_voblist)
          /\ \A j \in EncodeSteps :
                /\ ffmpeg_calls[j].kind = "segment"
                /\ ffmpeg_calls[j].input = input_voblist[j]

\* the encode of the first of two intermediates failed and the second was
\* encoded
C13_Witness ==
    /\ MergeDone /\ mode # 2
    /\ Len(ffmpeg_calls) = 2
    /\ ffmpeg_calls[1].rc # 0
    /\ ffmpeg_calls[2].kind = "final"

\* the image has one destination, <name><ext>: mode 2, or one intermediate
OneDestination == mode = 2 \/ Cardinality(VobNames(idx)) = 1

\* <name><ext> of the image exists and no encode of this run wrote it
ExistedBefore ==
    /\ Dest(idx, << >>) \in out_files
    /\ \A j \in Invoked(ffmpeg_calls) :
          ffmpeg_calls[j].kind \in {"final", "concat"} => ffmpeg_calls[j].rc # 0

\* C14: with overwrite off and the destination of the image there already,
\* the merge makes no run_ffmpeg invocation for the image in any mode, logs
\* that the destination will not be overwritten and reports no errors.
C14_ExistingDestinationNoEncode ==
    (MergeDone /\ ~overwrite /\ OneDestination /\ ExistedBefore)
        => /\ Invoked(ffmpeg_calls) = {}
           /\ "not overwritten" \in messages
           /\ ~errors

\* C15: with n > 1 groups in the Catalog, the k-th step of the final encodes
\* is for the intermediate of the k-th group and its destination is
\* <name>_<k><ext>.
C15_NumberedDestinations ==
    (MergeDone /\ mode # 2 /\ Len(input_disclist) > 1)
        => /\ Len(ffmpeg_calls) = Len(input_disclist)
           /\ \A k \in 1..Len(ffmpeg_calls) :
                 /\ ffmpeg_calls[k].input = << "vob", k >>
                 /\ ffmpeg_calls[k].dest = Dest(idx, << k >>)

\* main is done with the merge of image i, whose lists are still held
MergeOver(i) ==
    \/ i = idx /\ pc = "cleanup"
    \/ i + 1 = idx /\ pc = "mount" /\ stage[i] = "no_vobs"

\* the Catalog of the image has exactly one group (in mode 2: the segments
\* of the flat list are of one disc)
OneGroup ==
    IF mode = 2
    THEN Cardinality({ DiscField(Basename(input_voblist[j])) :
                          j \in 1..Len(input_voblist) }) = 1
    ELSE Len(input_disclist) = 1

\* no earlier run left an intermediate in the .VOBS directory of image i
FreshDir(i) == << "vob", 1 >> \notin DOMAIN vob_dirs[W(i)].files

\* C16: for an image whose Catalog has exactly one group, with overwrite on,
\* every segment readable and every run_ffmpeg returning 0 (and nothing left
\* in its .VOBS directory by an earlier run), the image is removed from
\* left_to_process and its one output file is <name><ext>.
C16_SingleGroupConverted ==
    \A i \in Images :
        (stage[i] \in {"merging", "no_vobs"} /\ MergeOver(i) /\ OneGroup
           /\ overwrite /\ unreadable = {} /\ ~Failed(ffmpeg_calls)
           /\ FreshDir(i))
        => /\ i \notin Range(left_to_process)
           /\ { d \in out_files : d.iso = OutputName(i) } = { Dest(i, << >>) }

(***************************************************************************)
(* The intermediates of modes 1 and 3.                                     *)
(***************************************************************************)
\* what <name>.vob, <name>_1.vob .. <name>_k.vob of image i hold, one after
\* the other
RECURSIVE IntermediateBytes(_, _)
IntermediateBytes(i, k) ==
    IF k < 0 THEN << >>
    ELSE IntermediateBytes(i, k - 1)
         \o (IF << "vob", k >> \in DOMAIN vob_dirs[W(i)].files
             THEN vob_dirs[W(i)].files[<< "vob", k >>] ELSE << >>)

\* the copy step of image i has returned
Copied1or3(i) == mode \in {1, 3} /\ stage[i] \in {"merging", "no_vobs"}

\* C17: in mode 1 as in mode 3, with every segment readable, the intermediates
\* of an image hold, taken in order, every segment of the Catalog whole, in
\* the order of the groups.
C17_SameBytes ==
    \A i \in Images :
        (Copied1or3(i) /\ unreadable = {} /\ (i = idx \/ i + 1 = idx))
        => IntermediateBytes(i, Len(input_disclist))
             = Whole(Flatten(input_disclist))

\* C18: in mode 3, when a segment cannot be opened or read, the errors flag of
\* the copy is raised, main is not ended, every readable segment is whole in
\* the intermediate, and the intermediate is given to the final encode.
C18_UnreadableSkipped ==
    (mode = 3 /\ idx = 1 /\ stage[1] = "merging" /\ unreadable # {})
    => /\ pc # "crashed"
       /\ move_errors
       /\ \A p \in Range(CopyList) \ unreadable :
            << p, "whole" >> \in Range(vob_dirs[W(1)].files[<< "vob", 0 >>])
       /\ pc = "cleanup" =>
            \E j \in 1..Len(ffmpeg_calls) : ffmpeg_calls[j].input = << "vob", 0 >>

(***************************************************************************)
(* The resolution given to the encodes.                                    *)
(***************************************************************************)
\* what ffprobe wrote is a size: width,height, both numbers
IsSize(stdout) ==
    /\ Len(GetRes(stdout)) = 2
    /\ IsInt(GetRes(stdout)[1]) /\ IsInt(GetRes(stdout)[2])

\* the run_ffmpeg invocations that encode one file
FileEncodes ==
    { j \in Invoked(ffmpeg_calls) : ffmpeg_calls[j].kind \in {"segment", "final"} }

\* C19: when ffprobe is not configured, or wrote nothing or no size for a
\* file, the encode of that file is invoked with the size of the
\* transcode_string of main (640x480 unchanged), and the errors flag is set
\* only by a non-zero status of an encode.
C19_ProbeFailureFallsBack ==
    MergeDone =>
        /\ \A j \in FileEncodes :
             (~ffprobe_command \/ ~IsSize(ffmpeg_calls[j].stdout))
             => ffmpeg_calls[j].size = transcode_string
        /\ errors => Failed(ffmpeg_calls)

\* C20: when transcode_string has "-s 640x480", ffprobe is configured and
\* writes a size for every file, every file is encoded with the size ffprobe
\* wrote for that file.
C20_OwnResolution ==
    (MergeDone /\ ffprobe_command /\ transcode_string = S640x480
       /\ \A j \in FileEncodes : IsSize(ffmpeg_calls[j].stdout))
    => \A j \in FileEncodes :
         ffmpeg_calls[j].size = SourceRes(ffmpeg_calls[j].stdout)

(***************************************************************************)
(* Cleanup.                                                                *)
(***************************************************************************)
\* C21: once the cleanup of an image has run to its end, its .VOBS directory
\* and its <image>.mylist.txt do not exist, whether the output directory is
\* the directory of the image or another one.
C21_CleanupRemovesTemporaries ==
    \A i \in Images :
        stage[i] = "cleaned" => (~vob_dirs[W(i)].exists /\ i \notin DOMAIN mylists)

\* C22: a failure in the cleanup of an image (no interrupt being involved)
\* does not end main: after the removal of the temporary files the unmount
\* follows, and after the unmount main goes on to the next image.
C22_CleanupFailureNotFatal ==
    [][ (pc \in {"cleanup", "unmount"} /\ ~interrupted')
        => /\ pc' # "crashed"
           /\ pc = "unmount" => (pc' = "mount" /\ idx' = idx + 1) ]_vars

(***************************************************************************)
(* The groups of the grouping pass (modes 1 and 3).                        *)
(***************************************************************************)
\* the places of path p in the Catalog: group a, position j
Places(p) ==
    { aj \in UNION { { << a, j >> : j \in 1..Len(input_disclist[a]) } :
                       a \in 1..Len(input_disclist) } :
        input_disclist[aj[1]][aj[2]] = p }

\* C23: for every walk order, every segment with sequenceNumber > 0 is at
\* exactly one place of the Catalog of the grouping pass.
C23_EachPlayableSegmentOnce ==
    (CatalogBuilt /\ mode # 2)
    => \A f \in Playable(files) : Cardinality(Places(PathOf(f))) = 1

\* the discNumbers of the segments of group g
DiscsOf(g) == { DiscOfPath(g[j]) : j \in 1..Len(g) }

\* C24: for every walk order, the segments of one group of the Catalog have
\* one discNumber, and no two groups have a discNumber in common.
C24_OneDiscPerGroup ==
    (CatalogBuilt /\ mode # 2)
    => /\ \A a \in 1..Len(input_disclist) :
            Cardinality(DiscsOf(input_disclist[a])) <= 1
       /\ \A a, b \in 1..Len(input_disclist) :
            a # b => DiscsOf(input_disclist[a]) \cap DiscsOf(input_disclist[b]) = {}

\* C26: for every set of files and every walk order no group of the Catalog
\* of the grouping pass is empty, and the Catalog has as many groups as there
\* are discs with a segment of sequenceNumber > 0.
C26_NoEmptyGroup ==
    (CatalogBuilt /\ mode # 2)
    => /\ \A a \in 1..Len(input_disclist) : input_disclist[a] # << >>
       /\ Len(input_disclist) = Cardinality(PlayableDiscs)

\* C27: the grouping pass returns has_vobs false only for an image with no
\* segment of sequenceNumber > 0, and only with an empty Catalog.
C27_NoVobsOnlyIfEmpty ==
    (CatalogBuilt /\ mode # 2 /\ ~has_vobs)
    => (Playable(files) = {} /\ Flatten(input_disclist) = << >>)

(***************************************************************************)
(* The list of mode 2.                                                     *)
(***************************************************************************)
\* the list ffmpeg_move_vobs_to_local wrote for the first image
FileList == mylists[1]

\* entry a of the list comes before entry b in (discNumber, sequenceNumber)
EntryBefore(a, b) ==
    \/ IntOf(DiscField(a[2])) < IntOf(DiscField(b[2]))
    \/ /\ IntOf(DiscField(a[2])) = IntOf(DiscField(b[2]))
       /\ IntOf(VobField(a[2])) < IntOf(VobField(b[2]))

\* C25: in mode 2 the list has exactly one entry for every segment with
\* sequenceNumber > 0, naming the encode of that segment in the .VOBS
\* directory, in ascending (discNumber, sequenceNumber) order, and when it is
\* written one encode has been attempted for every entry.
C25_ListOfEncodedSegments ==
    (mode = 2 /\ stage[1] \in {"merging", "no_vobs"})
    => /\ 1 \in DOMAIN mylists
       /\ Len(FileList) = Cardinality(Playable(files))
       /\ \A f \in Playable(files) :
            Cardinality({ j \in 1..Len(FileList) :
                            FileList[j] = SegName(PathOf(f)) }) = 1
       /\ \A j \in 1..Len(FileList) : \A k \in (j + 1)..Len(FileList) :
            EntryBefore(FileList[j], FileList[k])
       /\ Len(ffmpeg_calls) >= Len(FileList)
       /\ \A j \in 1..Len(FileList) :
            /\ ffmpeg_calls[j].kind = "segment"
            /\ ffmpeg_calls[j].dest = FileList[j]

\* C28: the intermediate of mode 3 holds whole segments only, in the order of
\* the Catalog: a segment whose read failed left none of its bytes in it.
C28_WholeSegmentsOnly ==
    (mode = 3 /\ stage[1] \in {"merging", "no_vobs"})
    => /\ << "vob", 0 >> \in DOMAIN vob_dirs[W(1)].files
       /\ LET content == vob_dirs[W(1)].files[<< "vob", 0 >>]
              Kept(p) == \E j \in 1..Len(content) : content[j][1] = p
          IN  content = Whole(SelectSeq(CopyList, Kept))

(***************************************************************************)
(* The mount-point directories.                                            *)
(***************************************************************************)
\* C29: a directory that mount_image creates is the mount point of an image
\* that is mounted (a failed mount leaves none behind), and when the unmount
\* of an image was issued and cleanup logged no failure of os.rmdir the
\* directory of its mount point is gone: no directory stays to shift the
\* mount point of a later image.
C29_MountPointsRemoved ==
    [][ /\ \A k \in mount_dirs' \ mount_dirs : << idx, k >> \in mounts'
        /\ (idx \in unmount_issued' \ unmount_issued
              /\ pc' \in {"mount", "exited"}
              /\ "Unable to remove the mount point" \notin messages')
           => mount_point \notin mount_dirs' ]_vars

(***************************************************************************)
(* The names main derives for the images of one batch.                     *)
(***************************************************************************)
\* the steps of the final encode of the image being processed
FinalSteps ==
    { j \in 1..Len(ffmpeg_calls) :
        ffmpeg_calls[j].kind \in {"final", "concat", "skipped"} }

\* C30: two different images of one batch have different .VOBS directories
\* and different final outputs, and no final encode of an image is written
\* to, or skipped for, the output of another image.
C30_ImagesKeepApart ==
    /\ \A i, j \in Images :
         i # j => (WorkDir(i) # WorkDir(j) /\ OutputName(i) # OutputName(j))
    /\ pc \in {"cleanup", "unmount"} =>
         \A j \in FinalSteps : \A i \in Images \ {idx} :
             ffmpeg_calls[j].dest.iso # OutputName(i)

=============================================================================
